---- MODULE Spec2Model ----
(***************************************************************************)
(* Model of RNAseq_RawCode.py: the statements of the script that take the  *)
(* raw count table and the sample metadata through the gene filter, the    *)
(* DESeq2 fit, the Benjamini-Hochberg pass and the selection of the        *)
(* differentially expressed genes, and on to the first cross-validation,   *)
(* which binds the name results again.  Every top-level statement (group)  *)
(* of the script is one action; pc names the statement to run next.  The   *)
(* helper _centered, which the script defines for scipy, is modelled as a  *)
(* function with a specification of its own calls.                         *)
(*                                                                         *)
(* A pandas DataFrame is a record [index, columns, rows]: index and        *)
(* columns are sequences of labels and rows is the sequence of the rows in *)
(* their positional order, each row a function from column label to value. *)
(*                                                                         *)
(* Numbers.  Counts are naturals.  A log2 value log2(x) is kept by its     *)
(* argument (see Log2PlusEps).  A float that can be NaN is a record         *)
(* [nan, v]; comparisons with a NaN are FALSE as in IEEE-754.  A raw       *)
(* p-value v stands for v / PScale.                                        *)
(***************************************************************************)
EXTENDS Integers, Sequences, FiniteSets, TLC

VARIABLES
    pc,               \* the statement of the script that runs next
    err,              \* the Python exception that ended the run, or "none"
    df,               \* raw count table, samples x genes           (l.70-73)
    meta,             \* metadata rows: title, disease_group        (l.96-99)
    fitCases,         \* which outcomes of the per-gene fit the data of this run can give
    counts,           \* meta.merge(counts)                         (l.102-103)
    counts_log2,      \* log2(df + epsilon), clipped                (l.117)
    means_per_gene,   \* mean of counts_log2 over the samples       (l.132)
    to_remove,        \* means_log2 < 0.5                           (l.162)
    to_keep,          \* list of the genes kept                     (l.165-167)
    filtered_df,      \* counts_log2 restricted to to_keep          (l.173-174)
    filtered_counts,  \* raw counts restricted to to_keep           (l.193-195)
    meta_copy,        \* metadata indexed by title, with condition  (l.201-203)
    dds,              \* the DeseqDataSet                           (l.209-210)
    results,          \* deseq_stats.results_df (+ bh_adj)          (l.216-224)
    diff_exp_genes,   \* the selected genes                          (l.252)
    arr,              \* the array handed to _centered             (l.48)
    newsize,          \* the size handed to _centered              (l.48)
    centered          \* what _centered returned                   (l.55)

vars == <<pc, err, df, meta, fitCases, counts, counts_log2, means_per_gene,
          to_remove, to_keep, filtered_df, filtered_counts, meta_copy, dds,
          results, diff_exp_genes, arr, newsize, centered>>

(***************************************************************************)
(* Bounds of the model.                                                    *)
(***************************************************************************)
NGenes == 2            \* gene columns of the count table (count-rich runs)
NSamples == 2          \* samples of the count table (count-rich runs)
MaxCount == 4          \* the largest read count drawn
NDesignSamples == 3    \* samples of the count table (design runs)
NStatGenes == 3        \* gene columns of the count table (statistics runs)
PScale == 60           \* a raw p-value v stands for v / PScale
MaxLFC == 2            \* the largest |log2 fold change| drawn
MaxNDim == 2           \* the most dimensions of an array handed to _centered
MaxSide == 3           \* the largest size of such an array along a dimension

(***************************************************************************)
(* Values of the program.                                                  *)
(***************************************************************************)
MARCH1 == 1            \* genes are named 1, 2, ...; MARCH1 is the first column
NComponents == 4       \* principal components the script reads: PC1..PC4
NSplits == 5           \* StratifiedKFold(n_splits = 5)
Healthy == "Healthy"
LatentTB == "Latent TB"
DiseaseGroups == {Healthy, LatentTB}

None == [index |-> <<>>, columns |-> <<>>, rows |-> <<>>]

Range(s) == {s[i] : i \in DOMAIN s}

Iota(n) == [i \in 1..n |-> i]

\* positions of the sequence s whose element satisfies Test, ascending
Positions(s, Test(_)) == SelectSeq(Iota(Len(s)), LAMBDA i : Test(s[i]))

\* the function f over 1..n as an explicit tuple
RECURSIVE Tuple(_, _)
Tuple(f, n) == IF n = 0 THEN <<>> ELSE Append(Tuple(f, n - 1), f[n])

RECURSIVE Prod(_)
Prod(s) == IF s = <<>> THEN 1 ELSE Head(s) * Prod(Tail(s))

RECURSIVE Pow(_, _)
Pow(b, e) == IF e = 0 THEN 1 ELSE b * Pow(b, e - 1)

(***************************************************************************)
(* Floats that may be NaN.                                                 *)
(***************************************************************************)
NaN == [nan |-> TRUE, v |-> 0]
Num(x) == [nan |-> FALSE, v |-> x]
FGt(a, b) == ~a.nan /\ ~b.nan /\ a.v > b.v
FAbs(a) == IF a.nan THEN a ELSE Num(IF a.v < 0 THEN 0 - a.v ELSE a.v)

(***************************************************************************)
(* Logarithms.  epsilon = 0.5 = num / den.  The value log2(c + epsilon)    *)
(* is kept exactly as the integer c*den + num, its argument in units of    *)
(* 1/den; log2 is increasing, so clipping a log from below is              *)
(* clipping its argument.  The mean of n such logs is kept as [prod, n]:   *)
(* the product of the arguments and their number, i.e. the value           *)
(* (log2(prod) - n*log2(den)) / n.                                         *)
(***************************************************************************)
Epsilon == [num |-> 1, den |-> 2]
Tau == [num |-> 1, den |-> 2]

\* np.log2(c + epsilon)
\* (Log2NoEps: the logarithm of the bare count)
Log2NoEps(c) == c * Epsilon.den
Log2PlusEps(c) == c * Epsilon.den + Epsilon.num

\* np.log2(epsilon)
Log2Eps == Epsilon.num

\* x.clip(lower = lo)
ClipLower(x, lo) == IF x < lo THEN lo ELSE x

\* np.mean over a sequence of logs
MeanLog(xs) == [prod |-> Prod(xs), n |-> Len(xs)]

\* mean < t for a rational t = t.num / t.den:
\*   (log2 P - n log2 D) / n < a/b  <=>  P^b < 2^(a n) * D^(b n)
MeanLt(m, t) ==
    Pow(m.prod, t.den) < Pow(2, t.num * m.n) * Pow(Epsilon.den, t.den * m.n)

(***************************************************************************)
(* DataFrame operations.                                                   *)
(***************************************************************************)
\* the default RangeIndex of a frame of n rows
RangeIndex(n) == [i \in 1..n |-> i - 1]

\* the column of a frame as the sequence of its values, in row order
Column(frame, c) == [i \in 1..Len(frame.rows) |-> frame.rows[i][c]]

\* frame.loc[:, cols] : the columns cols, in the order of cols
LocColumns(frame, cols) ==
    [index |-> frame.index, columns |-> cols,
     rows |-> [i \in 1..Len(frame.rows) |-> [c \in Range(cols) |-> frame.rows[i][c]]]]

\* the labels of cols from label first on (a label slice first: )
SliceFrom(cols, first) ==
    LET at == Positions(cols, LAMBDA c : c = first)
    IN  IF at = <<>> THEN <<>> ELSE SubSeq(cols, Head(at), Len(cols))

\* meta.merge(counts): inner join on the one common column, title.  The rows
\* come in the order of the left frame's keys; a left row pairs with every
\* right row of the same title, in the right frame's order.
RECURSIVE MergeFrom(_, _, _)
MergeFrom(left, right, i) ==
    IF i > Len(left) THEN <<>>
    ELSE LET at == Positions(right.index, LAMBDA t : t = left[i].title)
         IN  [k \in 1..Len(at) |->
                 [title |-> left[i].title,
                  disease_group |-> left[i].disease_group,
                  genes |-> right.rows[at[k]]]]
             \o MergeFrom(left, right, i + 1)

\* the same join with the rows in the order of the right frame's keys
MergeRightOrder(left, right) ==
    LET at == Positions(right.index,
                        LAMBDA t : \E i \in 1..Len(left) : left[i].title = t)
        Left(t) == left[CHOOSE i \in 1..Len(left) : left[i].title = t]
        rows == [k \in 1..Len(at) |->
                    [title |-> right.index[at[k]],
                     disease_group |-> Left(right.index[at[k]]).disease_group,
                     genes |-> right.rows[at[k]]]]
    IN  [index |-> RangeIndex(Len(rows)), columns |-> right.columns, rows |-> rows]
Merge(left, right) ==
    LET rows == MergeFrom(left, right, 1)
    IN  [index |-> RangeIndex(Len(rows)), columns |-> right.columns, rows |-> rows]

(***************************************************************************)
(* The gene filter.                                                        *)
(***************************************************************************)
\* np.log2(df + epsilon).clip(lower = np.log2(epsilon))
CountsLog2(frame) ==
    [index |-> frame.index, columns |-> frame.columns,
     rows |-> [i \in 1..Len(frame.rows) |->
                 [g \in Range(frame.columns) |->
                     ClipLower(Log2PlusEps(frame.rows[i][g]), Log2Eps)]]]

\* np.mean(counts_log2, axis = 0)
MeansPerGene(frame) ==
    [g \in Range(frame.columns) |-> MeanLog(Column(frame, g))]

\* means_log2 < 0.5
ToRemove(means) == [g \in DOMAIN means |-> MeanLt(means[g], Tau)]

\* list(to_remove[~to_remove['Log2Count']].index)
\* (ToKeepMissingNot: the selection without the ~)
ToKeepMissingNot(cols, remove) == SelectSeq(cols, LAMBDA g : remove[g])
ToKeep(cols, remove) == SelectSeq(cols, LAMBDA g : ~remove[g])

(***************************************************************************)
(* pydeseq2: DeseqDataSet, deseq2(), DeseqStats (l.209-216).  The script   *)
(* only calls them; what is modelled is what the calls do to the script's  *)
(* data: the check of the design, the median-of-ratios size factors        *)
(* (pydeseq2.preprocessing.deseq2_norm) and the shape of the result table. *)
(* The negative-binomial fit itself is not computed: the log2 fold change  *)
(* and the Wald p-value of a gene are drawn from the outcomes of fitCases. *)
(***************************************************************************)
\* the condition column: 'Healthy' if x == 'Healthy' else 'TB'
\* (ConditionSwapped: the two labels exchanged)
ConditionSwapped(x) == IF x = Healthy THEN "TB" ELSE "Healthy"
Condition(x) == IF x = Healthy THEN "Healthy" ELSE "TB"

\* the genes without a zero count: the genes whose mean of log counts is finite
Qualifying(frame) ==
    SelectSeq(frame.columns,
              LAMBDA g : \A i \in 1..Len(frame.rows) : frame.rows[i][g] > 0)

\* In sample i, the ratio of gene g's count to the gene's geometric mean,
\* raised to the power n = number of samples: c^n / (product of the gene's
\* counts), as [num, den].
RatioPow(frame, i, g) ==
    [num |-> Pow(frame.rows[i][g], Len(frame.rows)), den |-> Prod(Column(frame, g))]

RatioLeq(a, b) == a.num * b.den <= b.num * a.den

\* the genes gs ordered by their ratio in sample i, ascending
SortedByRatio(frame, i, gs) ==
    LET Before(a, b) ==
            \/ ~RatioLeq(RatioPow(frame, i, gs[b]), RatioPow(frame, i, gs[a]))
            \/ /\ RatioLeq(RatioPow(frame, i, gs[a]), RatioPow(frame, i, gs[b]))
               /\ a < b
        Rank(a) == 1 + Cardinality({b \in DOMAIN gs : Before(b, a)})
    IN  [k \in DOMAIN gs |-> gs[CHOOSE a \in DOMAIN gs : Rank(a) = k]]

\* exp(median of the log ratios) of sample i over the qualifying genes gs,
\* as the factor raised to the power 2n: the product of the two middle
\* ratios (the middle one twice when their number is odd).  The median of
\* no ratio at all is NaN.
SizeFactor(frame, i, gs) ==
    IF gs = <<>> THEN [nan |-> TRUE, num |-> 0, den |-> 1]
    ELSE LET srt == SortedByRatio(frame, i, gs)
             lo == RatioPow(frame, i, srt[(Len(gs) + 1) \div 2])
             hi == RatioPow(frame, i, srt[(Len(gs) + 2) \div 2])
         IN  [nan |-> FALSE, num |-> lo.num * hi.num, den |-> lo.den * hi.den]

MedianOfRatios(frame) ==
    [i \in 1..Len(frame.rows) |-> SizeFactor(frame, i, Qualifying(frame))]

\* the factors the iterative method may settle on when no gene qualifies:
\* positive and finite, their value is not modelled
IterativeFactors ==
    {[nan |-> FALSE, num |-> 1, den |-> 1], [nan |-> FALSE, num |-> 2, den |-> 1]}

\* the outcomes of one gene's fit
LfcCases(cases) ==
    IF cases = "coarse" THEN {Num(MaxLFC)}
    ELSE {Num(0 - MaxLFC), Num(1), Num(MaxLFC), NaN}

PvalueCases(cases) ==
    IF cases = "coarse" THEN {Num(1)}
    ELSE {Num(1), Num(2), Num(3), Num(PScale \div 2), Num(PScale), NaN}

(***************************************************************************)
(* statsmodels.stats.multitest.multipletests(pvals, method = 'fdr_bh')[1]  *)
(* as the script calls it (l.222): the whole pvalue column goes in.        *)
(* An adjusted value v over n tests stands for v / AdjUnit(n).             *)
(***************************************************************************)
RECURSIVE Fact(_)
Fact(n) == IF n = 0 THEN 1 ELSE n * Fact(n - 1)

AdjUnit(n) == PScale * Fact(n)

\* np.argsort(pvals): ascending, NaN last, ties in index order
ArgSort(ps) ==
    LET Less(a, b) == ~a.nan /\ (b.nan \/ a.v < b.v)
        Before(i, j) == Less(ps[i], ps[j]) \/ (~Less(ps[j], ps[i]) /\ i < j)
        Rank(i) == 1 + Cardinality({j \in DOMAIN ps : Before(j, i)})
    IN  [k \in DOMAIN ps |-> CHOOSE i \in DOMAIN ps : Rank(i) = k]

\* pvals_sorted / ecdffactor, ecdffactor[j] = j / n
CorrectedRaw(sorted) ==
    LET n == Len(sorted)
    IN  [j \in 1..n |->
            IF sorted[j].nan THEN NaN
            ELSE Num(sorted[j].v * n * (Fact(n) \div j))]

\* np.minimum.accumulate(raw[::-1])[::-1]: np.minimum hands a NaN on
MinimumAccumulate(raw) ==
    [j \in DOMAIN raw |->
        IF \E k \in j..Len(raw) : raw[k].nan THEN NaN
        ELSE LET rest == {raw[k].v : k \in j..Len(raw)}
             IN  Num(CHOOSE x \in rest : \A y \in rest : x <= y)]

\* pvals_corrected[pvals_corrected > 1] = 1
CapAtOne(xs, n) ==
    [j \in DOMAIN xs |-> IF FGt(xs[j], Num(AdjUnit(n))) THEN Num(AdjUnit(n)) ELSE xs[j]]

\* the adjusted values, back in the order of pvals
MultipleTests(ps) ==
    LET n == Len(ps)
        sortind == Tuple(ArgSort(ps), n)
        sorted == Tuple([j \in 1..n |-> ps[sortind[j]]], n)
        raw == Tuple(CorrectedRaw(sorted), n)
        corrected == Tuple(CapAtOne(MinimumAccumulate(raw), n), n)
    IN  Tuple([i \in 1..n |-> corrected[CHOOSE j \in 1..n : sortind[j] = i]], n)

(***************************************************************************)
(* The selection (l.252).                                                  *)
(***************************************************************************)
Alpha == [num |-> 5, den |-> 100]
Phi == 1

\* results['bh_adj'] < 0.05, for an adjusted value over n tests
\* (AdjLeqAlpha: the comparison with <= instead)
AdjLeqAlpha(a, n) == ~a.nan /\ a.v * Alpha.den <= Alpha.num * AdjUnit(n)
AdjLtAlpha(a, n) == ~a.nan /\ a.v * Alpha.den < Alpha.num * AdjUnit(n)

\* abs(results['log2FoldChange']) > 1
LfcGtPhi(l) == FGt(FAbs(l), Num(Phi))

\* the positions of the rows of results that pass both tests
SelectMask(res) ==
    SelectSeq(Iota(Len(res.rows)),
              LAMBDA i : /\ AdjLtAlpha(res.rows[i].bh_adj, Len(res.rows))
                         /\ LfcGtPhi(res.rows[i].log2FoldChange))

\* frame[mask]
TakeRows(frame, at) ==
    [index |-> [k \in 1..Len(at) |-> frame.index[at[k]]],
     columns |-> frame.columns,
     rows |-> [k \in 1..Len(at) |-> frame.rows[at[k]]]]

\* results.sort_values('log2FoldChange', ascending = False): the frame that
\* results names after the statement.  Without inplace = True the call
\* returns a sorted copy, which the script drops, and leaves the frame alone.
\* (ResultsSortedInPlace: the same call with inplace = True; the largest fold
\* change first, NaN last, ties in their order)
ResultsSortedInPlace(frame) ==
    LET key(k) == frame.rows[k].log2FoldChange
        Before(a, b) ==
            \/ FGt(key(a), key(b))
            \/ ~key(a).nan /\ key(b).nan
            \/ key(a) = key(b) /\ a < b
        Rank(a) == 1 + Cardinality({b \in 1..Len(frame.rows) : Before(b, a)})
        at == [k \in 1..Len(frame.rows) |->
                  CHOOSE a \in 1..Len(frame.rows) : Rank(a) = k]
    IN  [index |-> [k \in 1..Len(at) |-> frame.index[at[k]]],
         columns |-> frame.columns,
         rows |-> [k \in 1..Len(at) |-> frame.rows[at[k]]]]
ResultsAfterSort(frame) == frame

(***************************************************************************)
(* _centered (l.48-55), which the script puts in the place of              *)
(* scipy.signal.signaltools._centered (l.56).  A numpy array is a record   *)
(* [shape, data]: shape is the sequence of its sizes and data maps every   *)
(* index, a sequence of 0-based positions, to the element there.           *)
(***************************************************************************)
Indices(shape) ==
    {idx \in [1..Len(shape) -> 0..MaxSide] : \A k \in 1..Len(shape) : idx[k] < shape[k]}

\* the array of a shape whose elements are told apart by their place
NDArray(shape) == [shape |-> shape, data |-> [idx \in Indices(shape) |-> idx]]

NoArray == [shape |-> <<>>, data |-> <<>>]

\* slice(start, stop).indices(len): a negative bound counts from the end,
\* and both bounds are brought into 0..len
SliceBound(b, len) ==
    IF b < 0 THEN (IF b + len < 0 THEN 0 ELSE b + len)
    ELSE (IF b > len THEN len ELSE b)

\* arr[tuple(myslice)]: basic slicing with one slice per dimension
GetItem(a, myslice) ==
    LET first == [k \in 1..Len(myslice) |-> SliceBound(myslice[k].start, a.shape[k])]
        last == [k \in 1..Len(myslice) |-> SliceBound(myslice[k].stop, a.shape[k])]
        shape == [k \in 1..Len(myslice) |->
                     IF last[k] > first[k] THEN last[k] - first[k] ELSE 0]
    IN  [shape |-> shape,
         data |-> [idx \in Indices(shape) |->
                      a.data[[k \in 1..Len(shape) |-> first[k] + idx[k]]]]]

\* (StartIndCeil: the start index rounded up instead of down)
StartIndCeil(currsize, size) ==
    [k \in 1..Len(size) |-> (currsize[k] - size[k] + 1) \div 2]
StartInd(currsize, size) ==
    [k \in 1..Len(size) |-> (currsize[k] - size[k]) \div 2]

Centered(a, size) ==
    LET currsize == a.shape
        startind == StartInd(currsize, size)
        endind == [k \in 1..Len(size) |-> startind[k] + size[k]]
        myslice == [k \in 1..Len(endind) |-> [start |-> startind[k], stop |-> endind[k]]]
    IN  GetItem(a, myslice)

(***************************************************************************)
(* The inputs of a run.                                                    *)
(***************************************************************************)
CountValues == {0, 1, MaxCount}

\* metadata listing the samples 1..n in the order of the count table
AlignedMeta(n) ==
    [i \in 1..n |-> [title |-> i,
                     disease_group |-> IF i % 2 = 1 THEN Healthy ELSE LatentTB]]

\* every count table of NSamples samples and NGenes genes over CountValues
CountTables ==
    {[index |-> Iota(NSamples), columns |-> Iota(NGenes), rows |-> r] :
        r \in [1..NSamples -> [1..NGenes -> CountValues]]}

\* a count table whose rows tell the samples apart and whose last gene is
\* never read
DesignTable ==
    [index |-> Iota(NDesignSamples), columns |-> Iota(NGenes + 1),
     rows |-> [t \in 1..NDesignSamples |->
                 [g \in 1..(NGenes + 1) |-> IF g = NGenes + 1 THEN 0 ELSE t + g - 1]]]

\* a count table in which every gene is well expressed
StatTable ==
    [index |-> Iota(NSamples), columns |-> Iota(NStatGenes),
     rows |-> [t \in 1..NSamples |-> [g \in 1..NStatGenes |-> MaxCount]]]

\* every metadata table of 1..NDesignSamples+1 rows with distinct titles
\* among 1..NDesignSamples+1, any disease groups
MetaTables ==
    LET T == 1..(NDesignSamples + 1)
        Rows == [title : T, disease_group : DiseaseGroups]
    IN  {m \in UNION {[1..n -> Rows] : n \in T} :
            \A i, j \in DOMAIN m : m[i].title = m[j].title => i = j}

\* the counts of one gene over n samples: the same count in every sample, or
\* MaxCount in one sample over a background of 0 or of 1 in the others
GeneProfiles(n) ==
    {[t \in 1..n |-> b] : b \in CountValues}
        \cup {[t \in 1..n |-> IF t = s THEN MaxCount ELSE b] :
                 s \in 1..n, b \in {0, 1}}

\* every count table of NDesignSamples samples whose NStatGenes genes each
\* follow one of these profiles
ProfileTables ==
    {[index |-> Iota(NDesignSamples), columns |-> Iota(NStatGenes),
      rows |-> [t \in 1..NDesignSamples |-> [g \in 1..NStatGenes |-> p[g][t]]]] :
        p \in [1..NStatGenes -> GeneProfiles(NDesignSamples)]}

\* every count table of NDesignSamples samples in which the first gene takes
\* every profile over CountValues and every other gene has count 1 throughout
VariedGeneTables ==
    {[index |-> Iota(NDesignSamples), columns |-> Iota(NGenes),
      rows |-> [t \in 1..NDesignSamples |->
                  [g \in 1..NGenes |-> IF g = 1 THEN p[t] ELSE 1]]] :
        p \in [1..NDesignSamples -> CountValues]}

InitRest ==
    /\ pc = "merge"
    /\ err = "none"
    /\ counts = None
    /\ counts_log2 = None
    /\ means_per_gene = <<>>
    /\ to_remove = <<>>
    /\ to_keep = <<>>
    /\ filtered_df = None
    /\ filtered_counts = None
    /\ meta_copy = None
    /\ dds = None
    /\ results = None
    /\ diff_exp_genes = None
    /\ arr = NoArray
    /\ newsize = <<>>
    /\ centered = NoArray

\* runs that vary the counts
Init ==
    /\ df \in CountTables
    /\ meta = AlignedMeta(NSamples)
    /\ fitCases = "coarse"
    /\ InitRest

\* runs that vary the metadata
InitDesign ==
    /\ df = DesignTable
    /\ meta \in MetaTables
    /\ fitCases = "coarse"
    /\ InitRest

\* runs that vary the outcome of the per-gene tests
InitStats ==
    /\ df = StatTable
    /\ meta = AlignedMeta(NSamples)
    /\ fitCases = "fine"
    /\ InitRest

\* runs that vary one gene over three samples
InitGene ==
    /\ df \in VariedGeneTables
    /\ meta = AlignedMeta(NDesignSamples)
    /\ fitCases = "coarse"
    /\ InitRest

\* runs that vary the expression profiles of the genes over three samples
InitProfiles ==
    /\ df \in ProfileTables
    /\ meta = AlignedMeta(NDesignSamples)
    /\ fitCases = "coarse"
    /\ InitRest

\* a count table large enough for the four principal components and the
\* five folds, every gene evenly expressed
ClassifierTable ==
    [index |-> Iota(NSplits + 1), columns |-> Iota(NComponents),
     rows |-> [t \in 1..(NSplits + 1) |-> [g \in 1..NComponents |-> 1]]]

\* its metadata: the samples in the order of the table, any disease groups
ClassifierMetas ==
    {[i \in 1..(NSplits + 1) |-> [title |-> i, disease_group |-> d[i]]] :
        d \in [1..(NSplits + 1) -> DiseaseGroups]}

\* runs that reach the classifiers
InitClassifier ==
    /\ df = ClassifierTable
    /\ meta \in ClassifierMetas
    /\ fitCases = "coarse"
    /\ InitRest

\* every array of 1..MaxNDim dimensions of sizes 0..MaxSide
Shapes == UNION {[1..d -> 0..MaxSide] : d \in 1..MaxNDim}

\* calls of _centered: any array and any size of as many dimensions
InitCentered ==
    /\ pc = "_centered"
    /\ err = "none"
    /\ df = StatTable
    /\ meta = AlignedMeta(NSamples)
    /\ fitCases = "coarse"
    /\ counts = None
    /\ counts_log2 = None
    /\ means_per_gene = <<>>
    /\ to_remove = <<>>
    /\ to_keep = <<>>
    /\ filtered_df = None
    /\ filtered_counts = None
    /\ meta_copy = None
    /\ dds = None
    /\ results = None
    /\ diff_exp_genes = None
    /\ \E shape \in Shapes :
          /\ arr = NDArray(shape)
          /\ newsize \in [1..Len(shape) -> 0..MaxSide]
    /\ centered = NoArray

(***************************************************************************)
(* The statements of the script.                                           *)
(***************************************************************************)
\* l.102-103  counts = meta.merge(df.copy().reset_index().rename(...))
MergeCounts ==
    /\ pc = "merge"
    /\ counts' = Merge(meta, df)
    /\ pc' = "log2"
    /\ UNCHANGED <<err, df, meta, fitCases, counts_log2, means_per_gene, to_remove,
                   to_keep, filtered_df, filtered_counts, meta_copy, dds, results,
                   diff_exp_genes,
                   arr, newsize, centered>>

\* l.117  counts_log2 = np.log2(df + epsilon).clip(lower = np.log2(epsilon))
Log2Transform ==
    /\ pc = "log2"
    /\ counts_log2' = CountsLog2(df)
    /\ pc' = "means"
    /\ UNCHANGED <<err, df, meta, fitCases, counts, means_per_gene, to_remove,
                   to_keep, filtered_df, filtered_counts, meta_copy, dds, results,
                   diff_exp_genes,
                   arr, newsize, centered>>

\* l.132  means_per_gene = np.mean(counts_log2, axis = 0)
ComputeMeans ==
    /\ pc = "means"
    /\ means_per_gene' = MeansPerGene(counts_log2)
    /\ pc' = "filter"
    /\ UNCHANGED <<err, df, meta, fitCases, counts, counts_log2, to_remove,
                   to_keep, filtered_df, filtered_counts, meta_copy, dds, results,
                   diff_exp_genes,
                   arr, newsize, centered>>

\* l.160-167  to_remove = means_log2 < 0.5 ; to_keep = the genes not to remove
GeneFilter ==
    /\ pc = "filter"
    /\ to_remove' = ToRemove(means_per_gene)
    /\ to_keep' = ToKeep(counts_log2.columns, to_remove')
    /\ pc' = "filtered_df"
    /\ UNCHANGED <<err, df, meta, fitCases, counts, counts_log2, means_per_gene,
                   filtered_df, filtered_counts, meta_copy, dds, results,
                   diff_exp_genes,
                   arr, newsize, centered>>

\* l.173-174  filtered_df = counts_log2.copy().loc[:, to_keep]
FilterLog2 ==
    /\ pc = "filtered_df"
    /\ filtered_df' = LocColumns(counts_log2, to_keep)
    /\ pc' = "filtered_counts"
    /\ UNCHANGED <<err, df, meta, fitCases, counts, counts_log2, means_per_gene,
                   to_remove, to_keep, filtered_counts, meta_copy, dds, results,
                   diff_exp_genes,
                   arr, newsize, centered>>

Abort(e) == pc' = "aborted" /\ err' = e

\* l.193-194  filtered_counts = counts.loc[:, 'MARCH1':].loc[:, to_keep]
SliceCounts ==
    /\ pc = "filtered_counts"
    /\ LET cols == SliceFrom(counts.columns, MARCH1)
       IN  IF cols = <<>> \/ ~(Range(to_keep) \subseteq Range(cols))
           THEN Abort("KeyError") /\ UNCHANGED filtered_counts
           ELSE /\ filtered_counts' =
                     [index |-> counts.index, columns |-> to_keep,
                      rows |-> [i \in 1..Len(counts.rows) |->
                                  [g \in Range(to_keep) |-> counts.rows[i].genes[g]]]]
                /\ pc' = "set_index"
                /\ UNCHANGED err
    /\ UNCHANGED <<df, meta, fitCases, counts, counts_log2, means_per_gene, to_remove,
                   to_keep, filtered_df, meta_copy, dds, results, diff_exp_genes,
                   arr, newsize, centered>>

\* l.195  filtered_counts.index = meta['title']
\* pandas refuses an index whose length is not the number of rows
SetIndex ==
    /\ pc = "set_index"
    /\ IF Len(meta) # Len(filtered_counts.rows)
       THEN Abort("ValueError") /\ UNCHANGED filtered_counts
       ELSE /\ filtered_counts' =
                 [filtered_counts EXCEPT !.index = [i \in 1..Len(meta) |-> meta[i].title]]
            /\ pc' = "meta_copy"
            /\ UNCHANGED err
    /\ UNCHANGED <<df, meta, fitCases, counts, counts_log2, means_per_gene, to_remove,
                   to_keep, filtered_df, meta_copy, dds, results, diff_exp_genes,
                   arr, newsize, centered>>

\* l.201-203  meta_copy = meta.copy(), indexed by title, with the condition column
MetaCopy ==
    /\ pc = "meta_copy"
    /\ meta_copy' =
          [index |-> [i \in 1..Len(meta) |-> meta[i].title],
           columns |-> <<"title", "disease_group", "condition">>,
           rows |-> [i \in 1..Len(meta) |->
                       [title |-> meta[i].title,
                        disease_group |-> meta[i].disease_group,
                        condition |-> Condition(meta[i].disease_group)]]]
    /\ pc' = "dataset"
    /\ UNCHANGED <<err, df, meta, fitCases, counts, counts_log2, means_per_gene,
                   to_remove, to_keep, filtered_df, filtered_counts, dds, results,
                   diff_exp_genes,
                   arr, newsize, centered>>

\* l.209  dds = DeseqDataSet(counts = filtered_counts, clinical = meta_copy,
\*                           design_factors = "condition")
\* Building the design matrix raises ValueError when the factor does not take
\* two values.  The script itself checks nothing before the call.
BuildDataSet ==
    /\ pc = "dataset"
    /\ IF Cardinality({meta_copy.rows[i].condition : i \in 1..Len(meta_copy.rows)}) < 2
       THEN Abort("ValueError") /\ UNCHANGED dds
       ELSE /\ dds' = [counts |-> filtered_counts,
                       condition |-> Column(meta_copy, "condition"),
                       size_factors |-> <<>>,
                       LFC |-> <<>>]
            /\ pc' = "deseq2"
            /\ UNCHANGED err
    /\ UNCHANGED <<df, meta, fitCases, counts, counts_log2, means_per_gene, to_remove,
                   to_keep, filtered_df, filtered_counts, meta_copy, results,
                   diff_exp_genes,
                   arr, newsize, centered>>

\* l.210  dds.deseq2(): size factors, dispersions, log fold changes.
\* When no gene qualifies the median of ratios is taken over nothing: the
\* releases that take clinical= either leave every factor NaN (and the fit
\* then raises, or returns nothing but NaN) or switch to the iterative method
\* with a warning.  No release raises at the size factors.
Deseq2 ==
    /\ pc = "deseq2"
    /\ LET genes == dds.counts.columns
           sf == MedianOfRatios(dds.counts)
       IN  IF Qualifying(dds.counts) # <<>>
           THEN /\ \E lfc \in [1..Len(genes) -> LfcCases(fitCases)] :
                       dds' = [dds EXCEPT !.size_factors = sf, !.LFC = lfc]
                /\ pc' = "stats"
                /\ UNCHANGED err
           ELSE \/ /\ dds' = [dds EXCEPT !.size_factors = sf]
                   /\ Abort("ValueError")
                \/ /\ dds' = [dds EXCEPT !.size_factors = sf,
                                         !.LFC = [k \in 1..Len(genes) |-> NaN]]
                   /\ pc' = "stats"
                   /\ UNCHANGED err
                \/ /\ \E it \in [1..Len(dds.counts.rows) -> IterativeFactors] :
                      \E lfc \in [1..Len(genes) -> LfcCases(fitCases)] :
                           dds' = [dds EXCEPT !.size_factors = it, !.LFC = lfc]
                   /\ pc' = "stats"
                   /\ UNCHANGED err
    /\ UNCHANGED <<df, meta, fitCases, counts, counts_log2, means_per_gene, to_remove,
                   to_keep, filtered_df, filtered_counts, meta_copy, results,
                   diff_exp_genes,
                   arr, newsize, centered>>

\* l.213-216  deseq_stats = DeseqStats(dds, alpha = 0.05); deseq_stats.summary()
\*            results = deseq_stats.results_df
\* One row per gene of dds, in the order of its columns.  A gene without a
\* fold change has no p-value; a gene with one may still be left without a
\* p-value (outlier filtering).
DeseqStatsResults ==
    /\ pc = "stats"
    /\ LET genes == dds.counts.columns
       IN  \E p \in [1..Len(genes) -> PvalueCases(fitCases) \cup {NaN}] :
              /\ \A k \in 1..Len(genes) :
                    /\ dds.LFC[k].nan => p[k].nan
                    /\ p[k].nan => (NaN \in PvalueCases(fitCases) \/ dds.LFC[k].nan)
              /\ results' = [index |-> genes,
                             columns |-> <<"log2FoldChange", "pvalue">>,
                             rows |-> [k \in 1..Len(genes) |->
                                         [log2FoldChange |-> dds.LFC[k],
                                          pvalue |-> p[k],
                                          bh_adj |-> NaN]]]
    /\ pc' = "bh"
    /\ UNCHANGED <<err, df, meta, fitCases, counts, counts_log2, means_per_gene,
                   to_remove, to_keep, filtered_df, filtered_counts, meta_copy, dds,
                   diff_exp_genes,
                   arr, newsize, centered>>

\* l.222-224  adjusted = smm.multipletests(results['pvalue'], alpha = 0.05,
\*                                         method = 'fdr_bh')
\*            results['bh_adj'] = adjusted[1]
\* multipletests divides by the number of tests: no test, ZeroDivisionError.
\* (BHCorrectSkipped: the script without these statements)
BHCorrectSkipped ==
    /\ pc = "bh"
    /\ pc' = "sort_values"
    /\ UNCHANGED <<err, df, meta, fitCases, counts, counts_log2, means_per_gene,
                   to_remove, to_keep, filtered_df, filtered_counts, meta_copy, dds,
                   results, diff_exp_genes, arr, newsize, centered>>
BHCorrect ==
    /\ pc = "bh"
    /\ IF Len(results.rows) = 0
       THEN Abort("ZeroDivisionError") /\ UNCHANGED results
       ELSE /\ LET adjusted == MultipleTests(Column(results, "pvalue"))
               IN  results' =
                     [results EXCEPT
                        !.columns = <<"log2FoldChange", "pvalue", "bh_adj">>,
                        !.rows = [k \in 1..Len(results.rows) |->
                                    [results.rows[k] EXCEPT !.bh_adj = adjusted[k]]]]
            /\ pc' = "sort_values"
            /\ UNCHANGED err
    /\ UNCHANGED <<df, meta, fitCases, counts, counts_log2, means_per_gene, to_remove,
                   to_keep, filtered_df, filtered_counts, meta_copy, dds,
                   diff_exp_genes,
                   arr, newsize, centered>>

\* l.229  results.sort_values('log2FoldChange', ascending = False)
\* returns a sorted copy that the script does not keep
SortValues ==
    /\ pc = "sort_values"
    /\ results' = ResultsAfterSort(results)
    /\ pc' = "select"
    /\ UNCHANGED <<err, df, meta, fitCases, counts, counts_log2, means_per_gene,
                   to_remove, to_keep, filtered_df, filtered_counts, meta_copy, dds,
                   diff_exp_genes,
                   arr, newsize, centered>>

\* l.252  diff_exp_genes = results[(results['bh_adj'] < 0.05)
\*                                 & (abs(results['log2FoldChange']) > 1)]
SelectGenes ==
    /\ pc = "select"
    /\ diff_exp_genes' = TakeRows(results, SelectMask(results))
    /\ pc' = "done"
    /\ UNCHANGED <<err, df, meta, fitCases, counts, counts_log2, means_per_gene,
                   to_remove, to_keep, filtered_df, filtered_counts, meta_copy, dds,
                   results,
                   arr, newsize, centered>>

\* l.274-448  from deg = diff_exp_genes.index.tolist() to
\*            results = cross_validate(naivebayes, X_values.values, labels.values,
\*                                     cv = cv, return_train_score = True)
\* Of the statements in between (clustermap, PCA, plots) only what decides
\* whether l.448 is reached is kept: StandardScaler refuses a table without
\* columns (l.311), tb_pca_data[:, 3] needs four components, of which PCA
\* gives min(samples, genes) (l.314, l.339), and StratifiedKFold refuses
\* labels of which no class has n_splits members (l.442, l.448).  The name
\* results is then bound to the dict of score arrays; the test scores are
\* drawn, the train scores and the times are not modelled.
CrossValidate ==
    /\ pc = "done"
    /\ LET deg == diff_exp_genes.index
           labels == Column(meta_copy, "condition")
           Members(c) == Cardinality({i \in 1..Len(labels) : labels[i] = c})
       IN  IF Len(deg) = 0
           THEN Abort("ValueError") /\ UNCHANGED results
           ELSE IF Len(deg) < NComponents \/ Len(filtered_counts.rows) < NComponents
           THEN Abort("IndexError") /\ UNCHANGED results
           ELSE IF \A c \in Range(labels) : Members(c) < NSplits
           THEN Abort("ValueError") /\ UNCHANGED results
           ELSE /\ \E scores \in [1..NSplits -> {0, 1}] :
                      results' = [test_score |-> scores]
                /\ pc' = "cross_validated"
                /\ UNCHANGED err
    /\ UNCHANGED <<df, meta, fitCases, counts, counts_log2, means_per_gene, to_remove,
                   to_keep, filtered_df, filtered_counts, meta_copy, dds,
                   diff_exp_genes, arr, newsize, centered>>

\* l.48-55  a call of _centered(arr, newsize)
CallCentered ==
    /\ pc = "_centered"
    /\ centered' = Centered(arr, newsize)
    /\ pc' = "returned"
    /\ UNCHANGED <<err, df, meta, fitCases, counts, counts_log2, means_per_gene,
                   to_remove, to_keep, filtered_df, filtered_counts, meta_copy, dds,
                   results, diff_exp_genes, arr, newsize>>

Next ==
    \/ MergeCounts
    \/ Log2Transform
    \/ ComputeMeans
    \/ GeneFilter
    \/ FilterLog2
    \/ SliceCounts
    \/ SetIndex
    \/ MetaCopy
    \/ BuildDataSet
    \/ Deseq2
    \/ DeseqStatsResults
    \/ BHCorrect
    \/ SortValues
    \/ SelectGenes
    \/ CrossValidate

Spec == Init /\ [][Next]_vars
SpecDesign == InitDesign /\ [][Next]_vars
SpecStats == InitStats /\ [][Next]_vars
SpecProfiles == InitProfiles /\ [][Next]_vars
SpecGene == InitGene /\ [][Next]_vars
SpecClassifier == InitClassifier /\ [][Next]_vars
SpecCentered == InitCentered /\ [][CallCentered]_vars

(***************************************************************************)
(* Positions of a run.                                                     *)
(***************************************************************************)
AfterFilter == {"filtered_df", "filtered_counts", "set_index", "meta_copy", "dataset",
                "deseq2", "stats", "bh", "sort_values", "select", "done"}
AfterSetIndex == {"meta_copy", "dataset", "deseq2", "stats", "bh", "sort_values",
                  "select", "done"}
AfterDataSet == {"deseq2", "stats", "bh", "sort_values", "select", "done"}
AfterFit == {"stats", "bh", "sort_values", "select", "done"}
AfterBH == {"sort_values", "select", "done"}

Min(S) == CHOOSE x \in S : \A y \in S : x <= y

NoDuplicates(s) == \A i, j \in DOMAIN s : s[i] = s[j] => i = j

(***************************************************************************)
(* C1.  GeneFilter partitions the genes exactly by the threshold: with     *)
(* eps = 0.5 and tau = 0.5 a gene is kept iff the mean over all samples of *)
(* log2(count + eps) is >= tau and removed iff that mean is < tau; no gene *)
(* is both kept and removed and none is lost.                              *)
(* The mean of log2(c + 1/2) over n samples is >= 1/2 iff the product P of *)
(* the 2c + 1 has log2(P) - n >= n/2, i.e. P*P >= 8^n.                     *)
(***************************************************************************)
C1_P(g) == Prod([i \in 1..Len(df.rows) |-> 2 * df.rows[i][g] + 1])
C1_MeanGeqTau(g) == C1_P(g) * C1_P(g) >= Pow(8, Len(df.rows))
C1_MeanLtTau(g) == C1_P(g) * C1_P(g) < Pow(8, Len(df.rows))

C1_FilterPartitions ==
    pc \in AfterFilter =>
        /\ NoDuplicates(to_keep)
        /\ Range(to_keep) \subseteq Range(df.columns)
        /\ \A g \in Range(df.columns) :
              /\ (g \in Range(to_keep)) <=> C1_MeanGeqTau(g)
              /\ to_remove[g] <=> C1_MeanLtTau(g)
              /\ (g \in Range(to_keep)) # to_remove[g]

\* a gene with a zero count is kept, another gene is removed
C1_Witness ==
    /\ pc = "filtered_df"
    /\ \E g \in Range(to_keep) : \E i \in 1..Len(df.rows) : df.rows[i][g] = 0
    /\ \E g \in Range(df.columns) : to_remove[g]

(***************************************************************************)
(* C2.  SignificanceSelector returns exactly the genes whose adjusted      *)
(* p-value is < 0.05 and whose |log2 fold change| is > 1, both strict; a   *)
(* gene whose adjusted p-value or fold change is undefined is never in the *)
(* output.                                                                 *)
(***************************************************************************)
C2_Significant(row, n) ==
    /\ ~row.bh_adj.nan
    /\ ~row.log2FoldChange.nan
    /\ 20 * row.bh_adj.v < PScale * Fact(n)
    /\ (row.log2FoldChange.v > 1 \/ row.log2FoldChange.v < 0 - 1)

C2_SelectorExact ==
    pc = "done" =>
        /\ NoDuplicates(diff_exp_genes.index)
        /\ \A k \in 1..Len(results.rows) :
              (results.index[k] \in Range(diff_exp_genes.index))
                  <=> C2_Significant(results.rows[k], Len(results.rows))
        /\ \A k \in 1..Len(diff_exp_genes.rows) :
              /\ ~diff_exp_genes.rows[k].bh_adj.nan
              /\ ~diff_exp_genes.rows[k].log2FoldChange.nan
              /\ ~diff_exp_genes.rows[k].pvalue.nan

\* a gene is selected while a gene whose adjusted value is exactly 0.05 and
\* a gene whose fold change is exactly 1 are not
C2_Witness ==
    /\ pc = "done"
    /\ Len(diff_exp_genes.rows) > 0
    /\ \E k \in 1..Len(results.rows) :
          /\ ~results.rows[k].bh_adj.nan
          /\ 20 * results.rows[k].bh_adj.v = PScale * Fact(Len(results.rows))
          /\ results.rows[k].log2FoldChange = Num(MaxLFC)
    /\ \E k \in 1..Len(results.rows) :
          /\ results.rows[k].log2FoldChange = Num(1)
          /\ ~results.rows[k].bh_adj.nan
          /\ 20 * results.rows[k].bh_adj.v < PScale * Fact(Len(results.rows))

(***************************************************************************)
(* The Benjamini-Hochberg value of row k over the defined p-values of the  *)
(* table: m is their number, the rank of a p-value is the number of        *)
(* defined p-values <= it, and the value is min(1, min of p_h * m / rank_h *)
(* over the defined p_h >= p_k).  In units of 1 / (PScale * Fact(n)).      *)
(***************************************************************************)
Defined(res) == {k \in 1..Len(res.rows) : ~res.rows[k].pvalue.nan}

BHReference(res, k) ==
    LET n == Len(res.rows)
        D == Defined(res)
        m == Cardinality(D)
        p(h) == res.rows[h].pvalue.v
        rank(h) == Cardinality({j \in D : p(j) <= p(h)})
    IN  Min({p(h) * m * (Fact(n) \div rank(h)) : h \in {h \in D : p(h) >= p(k)}}
            \cup {PScale * Fact(n)})

(***************************************************************************)
(* C3.  The independent correction pass computes the Benjamini-Hochberg    *)
(* adjusted value for every input: ranking the defined p-values, m their   *)
(* number, the rank-i gene gets min(1, min over j >= i of p_j * m / j),    *)
(* and each gene receives the value of its own p-value.                    *)
(***************************************************************************)
C3_BHValues ==
    pc \in AfterBH =>
        \A k \in Defined(results) :
            results.rows[k].bh_adj = Num(BHReference(results, k))

(***************************************************************************)
(* C4.  After the correction pass every gene with a defined raw p-value    *)
(* has a defined adjusted p-value in [0, 1], also when other genes have an *)
(* undefined raw p-value.                                                  *)
(***************************************************************************)
C4_DefinedAdjusted ==
    pc \in AfterBH =>
        \A k \in Defined(results) :
            /\ ~results.rows[k].bh_adj.nan
            /\ results.rows[k].bh_adj.v >= 0
            /\ results.rows[k].bh_adj.v <= PScale * Fact(Len(results.rows))

(***************************************************************************)
(* C5.  BH monotonicity: for any two genes g, h with defined raw p-values, *)
(* pvalue(g) <= pvalue(h) implies bh_adj(g) <= bh_adj(h).                  *)
(***************************************************************************)
C5_Monotone ==
    pc \in AfterBH =>
        \A g, h \in Defined(results) :
            results.rows[g].pvalue.v <= results.rows[h].pvalue.v =>
                /\ ~results.rows[g].bh_adj.nan
                /\ ~results.rows[h].bh_adj.nan
                /\ results.rows[g].bh_adj.v <= results.rows[h].bh_adj.v

(***************************************************************************)
(* C6.  GeneFilter's output keeps the raw counts: for every surviving gene *)
(* and every sample the value in filtered_counts is the original count of  *)
(* that gene in that sample, the samples appear in their original order,   *)
(* and df is left unchanged.                                               *)
(***************************************************************************)
\* the row of the count table of the sample titled t
RowOf(t) == df.rows[CHOOSE i \in 1..Len(df.index) : df.index[i] = t]

SameSamples == Range(df.index) = {meta[i].title : i \in 1..Len(meta)}

C6_OriginalOrder ==
    (pc \in AfterSetIndex /\ SameSamples) =>
        /\ filtered_counts.index = df.index
        /\ filtered_counts.columns = to_keep
        /\ \A i \in 1..Len(df.rows) : \A g \in Range(to_keep) :
              filtered_counts.rows[i][g] = df.rows[i][g]

C6_RawCountsOriginalOrder == [][df' = df /\ C6_OriginalOrder']_vars

\* As amended: the rows are the samples of the metadata table, in its order,
\* each holding the raw counts of the sample it is labelled with.
C6_MetadataOrder ==
    pc \in AfterSetIndex =>
        /\ filtered_counts.index = [i \in 1..Len(meta) |-> meta[i].title]
        /\ Len(filtered_counts.rows) = Len(meta)
        /\ filtered_counts.columns = to_keep
        /\ \A i \in 1..Len(meta) :
              /\ meta[i].title \in Range(df.index)
              /\ \A g \in Range(to_keep) :
                    filtered_counts.rows[i][g] = RowOf(meta[i].title)[g]

C6_RawCountsMetadataOrder == [][df' = df /\ C6_MetadataOrder']_vars

\* the metadata lists the samples in another order than the count table
\* and a gene was removed
C6_Witness ==
    /\ pc = "meta_copy"
    /\ Len(filtered_counts.index) = Len(df.index)
    /\ filtered_counts.index # df.index
    /\ Len(to_keep) < Len(df.columns)
    /\ Len(to_keep) > 0

(***************************************************************************)
(* C7.  If the gene filter leaves fewer than 2 genes the run aborts with   *)
(* an error before normalization and testing; it never goes on to build    *)
(* the DeseqDataSet with 0 or 1 genes.                                     *)
(***************************************************************************)
C7_TooFewGenesAbort ==
    pc \in AfterDataSet => Len(dds.counts.columns) >= 2

(***************************************************************************)
(* C8.  The size factors: either every sample gets exactly one positive    *)
(* finite factor or the run fails; when every gene has a zero count in     *)
(* some sample no gene qualifies and the run aborts instead of producing   *)
(* an undefined or non-positive factor.                                    *)
(***************************************************************************)
C8_SizeFactorsOrAbort ==
    /\ (pc \in AfterFit /\ Len(to_keep) >= 2) =>
          /\ Len(dds.size_factors) = Len(dds.counts.rows)
          /\ \A i \in 1..Len(dds.size_factors) :
                /\ ~dds.size_factors[i].nan
                /\ dds.size_factors[i].num > 0
                /\ dds.size_factors[i].den > 0
          /\ Qualifying(dds.counts) # <<>>
    /\ (pc = "aborted" /\ dds # None /\ Len(to_keep) >= 2) =>
          (dds.size_factors = <<>> \/ \A i \in 1..Len(dds.size_factors) :
                                        ~dds.size_factors[i].nan)

(***************************************************************************)
(* C9.  The run aborts before any model fitting whenever the design is     *)
(* unfitted: the condition has fewer than 2 distinct values, or the set of *)
(* samples of the count table differs from that of the metadata (a sample  *)
(* present in only one of them is never silently dropped).                 *)
(***************************************************************************)
Unfitted ==
    \/ Cardinality({Condition(meta[i].disease_group) : i \in 1..Len(meta)}) < 2
    \/ ~SameSamples

C9_UnfittedAborts == Unfitted => pc \notin AfterFit

(***************************************************************************)
(* C10.  A per-gene fit failure is local: the gene is recorded with an     *)
(* undefined p-value and stays a row of the result table, and the run goes *)
(* on so that every other gene still gets its test result, its adjusted    *)
(* p-value and its selection decision.                                     *)
(***************************************************************************)
C10_FailureIsLocal ==
    pc \in AfterBH =>
        /\ results.index = dds.counts.columns
        /\ \A k \in 1..Len(results.rows) :
              results.rows[k].pvalue.nan =>
                  \A j \in Defined(results) :
                      /\ ~results.rows[j].bh_adj.nan
                      /\ (pc = "done" =>
                            ((results.index[j] \in Range(diff_exp_genes.index))
                                <=> /\ 20 * BHReference(results, j)
                                          < PScale * Fact(Len(results.rows))
                                    /\ LfcGtPhi(results.rows[j].log2FoldChange)))

(***************************************************************************)
(* The geometric mean of the factors is 1 iff their product is 1, iff the  *)
(* product of the numerators equals that of the denominators.  The         *)
(* products are not formed: every numerator is reduced against every       *)
(* denominator; after that each numerator is coprime to each denominator,  *)
(* so the two products are equal iff every entry has become 1.             *)
(***************************************************************************)
RECURSIVE Gcd(_, _)
Gcd(a, b) == IF b = 0 THEN a ELSE Gcd(b, a % b)

RECURSIVE Cancel(_, _, _)
Cancel(nums, dens, k) ==
    IF k > Len(nums) * Len(dens) THEN [nums |-> nums, dens |-> dens]
    ELSE LET i == ((k - 1) \div Len(dens)) + 1
             j == ((k - 1) % Len(dens)) + 1
             g == Gcd(nums[i], dens[j])
         IN  Cancel([nums EXCEPT ![i] = @ \div g], [dens EXCEPT ![j] = @ \div g], k + 1)

GeometricMeanIsOne(sf) ==
    /\ \A i \in 1..Len(sf) : ~sf[i].nan
    /\ LET c == Cancel([i \in 1..Len(sf) |-> sf[i].num],
                       [i \in 1..Len(sf) |-> sf[i].den], 1)
       IN  \A i \in 1..Len(sf) : c.nums[i] = 1 /\ c.dens[i] = 1

(***************************************************************************)
(* C11.  The geometric mean of the N size factors that the median-of-      *)
(* ratios normalization computes equals 1, for every count matrix in which *)
(* at least one gene qualifies.                                            *)
(***************************************************************************)
C11_GeometricMeanOne ==
    (pc \in AfterFit /\ Qualifying(dds.counts) # <<>>) =>
        GeometricMeanIsOne(dds.size_factors)

(***************************************************************************)
(* C12.  For every gene retained after GeneFilter the statistic            *)
(* log2(mean + eps), the log2 of the gene's mean raw count plus eps, is    *)
(* >= tau, and for every removed gene it is < tau (eps = 0.5, tau = 0.5).  *)
(* With s the sum of the gene's counts over n samples,                     *)
(* log2(s/n + 1/2) >= 1/2 iff (2s + n) / (2n) >= sqrt(2), i.e.             *)
(* (2s + n)^2 >= 8 n^2.                                                    *)
(***************************************************************************)
RECURSIVE Sum(_)
Sum(s) == IF s = <<>> THEN 0 ELSE Head(s) + Sum(Tail(s))

C12_LogOfMeanGeqTau(g) ==
    LET n == Len(df.rows)
        s == Sum(Column(df, g))
    IN  (2 * s + n) * (2 * s + n) >= 8 * n * n

C12_LogOfMeanPartitions ==
    pc \in AfterFilter =>
        \A g \in Range(df.columns) :
            /\ (g \in Range(to_keep)) => C12_LogOfMeanGeqTau(g)
            /\ to_remove[g] => ~C12_LogOfMeanGeqTau(g)

\* As amended: a retained gene has log2(mean + eps) >= tau; a removed gene
\* has its mean over the samples of log2(count + eps) < tau.
C12_RetainedByLogOfMean ==
    pc \in AfterFilter =>
        \A g \in Range(df.columns) :
            /\ (g \in Range(to_keep)) => C12_LogOfMeanGeqTau(g)
            /\ (g \notin Range(to_keep)) => (to_remove[g] /\ C1_MeanLtTau(g))

\* the first gene is removed although its log2(mean + eps) is >= tau, and
\* another gene is retained
C12_Witness ==
    /\ pc = "filtered_df"
    /\ to_remove[1]
    /\ C12_LogOfMeanGeqTau(1)
    /\ Range(to_keep) # {}

(***************************************************************************)
(* C13.  SignificanceSelector preserves ordering: the selected genes       *)
(* appear in the output in the same relative order as in the table of the  *)
(* test results, also after the intermediate sort of the results by        *)
(* log2FoldChange that precedes the selection: the table is still in the   *)
(* order in which the tests produced it, and the selection follows it.     *)
(***************************************************************************)
PlaceIn(s, x) == CHOOSE i \in DOMAIN s : s[i] = x

C13_OrderPreserved ==
    pc = "done" =>
        /\ results.index = dds.counts.columns
        /\ Range(diff_exp_genes.index) \subseteq Range(results.index)
        /\ \A j, k \in 1..Len(diff_exp_genes.index) :
              j < k => PlaceIn(results.index, diff_exp_genes.index[j])
                           < PlaceIn(results.index, diff_exp_genes.index[k])
        /\ \A k \in 1..Len(diff_exp_genes.index) :
              diff_exp_genes.rows[k] =
                  results.rows[PlaceIn(results.index, diff_exp_genes.index[k])]

\* two genes are selected and the earlier one has the smaller fold change,
\* so that a sort by descending fold change would have swapped them
C13_Witness ==
    /\ pc = "done"
    /\ \E j, k \in 1..Len(diff_exp_genes.rows) :
          /\ j < k
          /\ FGt(diff_exp_genes.rows[k].log2FoldChange,
                 diff_exp_genes.rows[j].log2FoldChange)

(***************************************************************************)
(* C17.  _centered(arr, newsize) is a pure centre crop: for every array    *)
(* shape and every newsize with 0 <= newsize[k] <= shape[k] in each        *)
(* dimension k, the result has shape exactly newsize and holds, along each *)
(* dimension, the elements of arr at the indices start_k ..                *)
(* start_k + newsize[k] - 1 with start_k = (shape[k] - newsize[k]) // 2,   *)
(* and arr itself is left unchanged.                                       *)
(***************************************************************************)
C17_Fits == \A k \in 1..Len(newsize) : 0 <= newsize[k] /\ newsize[k] <= arr.shape[k]

C17_Start(k) == (arr.shape[k] - newsize[k]) \div 2

C17_Cropped ==
    (pc = "returned" /\ C17_Fits) =>
        /\ centered.shape = newsize
        /\ DOMAIN centered.data = Indices(newsize)
        /\ \A idx \in Indices(newsize) :
              centered.data[idx] =
                  arr.data[[k \in 1..Len(newsize) |-> C17_Start(k) + idx[k]]]

C17_CentreCrop == [][arr' = arr /\ newsize' = newsize /\ C17_Cropped']_vars

\* a crop of a two-dimensional array that drops an odd number of places along
\* one dimension, none along the other, and keeps something
C17_Witness ==
    /\ pc = "returned"
    /\ C17_Fits
    /\ Len(newsize) = 2
    /\ (arr.shape[1] - newsize[1]) % 2 = 1
    /\ arr.shape[2] = newsize[2]
    /\ newsize[1] > 0
    /\ newsize[2] > 1
    /\ Cardinality(DOMAIN centered.data) = newsize[1] * newsize[2]

(***************************************************************************)
(* C15.  The per-gene test result table is immutable once the tester and   *)
(* the corrector have produced it: no later step of the run adds to it,    *)
(* overwrites it or re-binds the name results; its log2 fold change, raw   *)
(* p-value and adjusted p-value per gene stay what the test produced.      *)
(***************************************************************************)
C15_ResultsImmutable == [][(pc \in AfterBH) => (results' = results)]_vars

(***************************************************************************)
(* C14.  The stages run in the fixed order filter -> normalize -> estimate *)
(* dispersion -> test -> correct -> select, each exactly once per run and  *)
(* each starting only after the previous stage has produced its complete   *)
(* output; the selection reads the adjusted values that the independent    *)
(* correction pass wrote (bh_adj), and no stage reads an output that has   *)
(* not been produced yet.                                                  *)
(* Stated on every step of a run: the statements follow one another in the *)
(* order of Statements (normalization and dispersions are both inside      *)
(* dds.deseq2()), so none runs twice; a stage finds the complete output of *)
(* the one before it; and an output is written by its own stage only.      *)
(***************************************************************************)
Statements ==
    <<"merge", "log2", "means", "filter", "filtered_df", "filtered_counts",
      "set_index", "meta_copy", "dataset", "deseq2", "stats", "bh", "sort_values",
      "select", "done", "cross_validated">>

C14_InOrder ==
    pc' = "aborted" \/ PlaceIn(Statements, pc') = PlaceIn(Statements, pc) + 1

C14_InputsProduced ==
    /\ pc = "filtered_counts" =>
          /\ DOMAIN to_remove = Range(df.columns)
          /\ Range(to_keep) = {g \in Range(df.columns) : ~to_remove[g]}
    /\ pc = "deseq2" =>
          /\ dds.counts = filtered_counts
          /\ filtered_counts.columns = to_keep
          /\ dds.size_factors = <<>>
          /\ dds.LFC = <<>>
          /\ results = None
    /\ pc = "stats" =>
          /\ Len(dds.size_factors) = Len(dds.counts.rows)
          /\ Len(dds.LFC) = Len(dds.counts.columns)
          /\ results = None
    /\ pc = "bh" =>
          /\ results.index = dds.counts.columns
          /\ "bh_adj" \notin Range(results.columns)
          /\ \A k \in 1..Len(results.rows) :
                results.rows[k].log2FoldChange = dds.LFC[k]
          /\ diff_exp_genes = None
    /\ pc = "select" =>
          /\ "bh_adj" \in Range(results.columns)
          /\ LET adjusted == MultipleTests(Column(results, "pvalue"))
             IN  \A k \in 1..Len(results.rows) : results.rows[k].bh_adj = adjusted[k]
          /\ diff_exp_genes = None
          /\ diff_exp_genes' = TakeRows(results, SelectMask(results))

C14_WrittenOnce ==
    /\ pc # "filter" => (to_keep' = to_keep /\ to_remove' = to_remove)
    /\ pc \notin {"filtered_counts", "set_index"} => filtered_counts' = filtered_counts
    /\ pc \notin {"dataset", "deseq2"} => dds' = dds
    /\ pc \in {"sort_values", "select"} => results' = results
    /\ pc # "select" => diff_exp_genes' = diff_exp_genes

C14_StageOrder == [][C14_InOrder /\ C14_InputsProduced /\ C14_WrittenOnce]_vars

\* a run went through every stage, and the adjusted value alone keeps a gene
\* out of the selection: its fold change is large and its raw p-value is
\* below 0.05
C14_Witness ==
    /\ pc = "done"
    /\ err = "none"
    /\ \E k \in 1..Len(results.rows) :
          /\ results.index[k] \notin Range(diff_exp_genes.index)
          /\ LfcGtPhi(results.rows[k].log2FoldChange)
          /\ ~results.rows[k].pvalue.nan
          /\ results.rows[k].pvalue.v * Alpha.den < Alpha.num * PScale
          /\ ~results.rows[k].bh_adj.nan

(***************************************************************************)
(* C16.  Sample/label alignment: after the metadata-counts join and the    *)
(* positional index assignment, every row of filtered_counts labelled with *)
(* sample title t holds the counts of sample t of the original table, and  *)
(* meta_copy gives that same t exactly one condition, 'Healthy' iff its    *)
(* disease_group is 'Healthy' and 'TB' otherwise; for any order of the     *)
(* samples in the count table relative to the metadata.                    *)
(***************************************************************************)
\* the disease group that the metadata records for the sample titled t
GroupOf(t) == meta[CHOOSE j \in 1..Len(meta) : meta[j].title = t].disease_group

C16_Aligned ==
    pc \in {"dataset"} \cup AfterDataSet =>
        \A i \in 1..Len(filtered_counts.rows) :
            LET t == filtered_counts.index[i]
                at == {k \in 1..Len(meta_copy.index) : meta_copy.index[k] = t}
            IN  /\ t \in Range(df.index)
                /\ \A g \in Range(to_keep) : filtered_counts.rows[i][g] = RowOf(t)[g]
                /\ Cardinality(at) = 1
                /\ \A k \in at :
                      /\ meta_copy.rows[k].title = t
                      /\ meta_copy.rows[k].condition \in {"Healthy", "TB"}
                      /\ (meta_copy.rows[k].condition = "Healthy")
                             <=> (GroupOf(t) = Healthy)

\* the metadata lists every sample of the count table, in another order,
\* and both conditions occur
C16_Witness ==
    /\ pc = "dataset"
    /\ SameSamples
    /\ filtered_counts.index # df.index
    /\ Len(to_keep) > 0
    /\ {meta_copy.rows[k].condition : k \in 1..Len(meta_copy.rows)} = {"Healthy", "TB"}

====
